---- MODULE Spec2Model ----
(***************************************************************************)
(* The Reka provider adapter (llms/providers/reka.py): request             *)
(* construction, the four call paths (complete, acomplete,                 *)
(* complete_stream, acomplete_stream), token accounting, the shared        *)
(* last-recorded latency and the lazy fragment generators.                 *)
(***************************************************************************)
EXTENDS Integers, Sequences, FiniteSets, TLC

(***************************************************************************)
(* Bounds of the model.                                                    *)
(***************************************************************************)
\* a timed vendor call measures a latency in 1..MaxLatency
MaxLatency == 2
\* a vendor stream delivers at most MaxChunks chunks before it ends
MaxChunks == 2
\* entries of the caller's history list
MaxHistory == 2
\* times a consumer is told that a fragment sequence is over
MaxPasses == 2

(***************************************************************************)
(* Python values.  A str is a sequence of one-character strings; every     *)
(* value carries its type tag, which isinstance() reads.                   *)
(***************************************************************************)
NoneV == [t |-> "none", v |-> 0]
StrV(s) == [t |-> "str", v |-> s]
ListV(a) == [t |-> "list", v |-> a]
NumV(n) == [t |-> "num", v |-> n]
BoolV(b) == [t |-> "bool", v |-> b]

K_role == <<"r", "o", "l", "e">>
K_content == <<"c", "o", "n", "t", "e", "n", "t">>
R_user == <<"u", "s", "e", "r">>
R_system == <<"s", "y", "s", "t", "e", "m">>
R_assistant == <<"a", "s", "s", "i", "s", "t", "a", "n", "t">>

\* A message dict: its items in insertion order.
\* {"content": prompt, "role": "user"}
UserMsg(prompt) == << <<K_content, prompt>>, <<K_role, R_user>> >>
\* {"role": "system", "content": system_message}
SystemMsg(s) == << <<K_role, R_system>>, <<K_content, s>> >>
\* a caller-made entry {"role": role, "content": content}
Msg(role, content) == << <<K_role, role>>, <<K_content, content>> >>

(***************************************************************************)
(* str(message) of a dict of strings: "{'k': 'v', 'k2': 'v2'}".            *)
(***************************************************************************)
Repr(s) == <<"'">> \o s \o <<"'">>

ItemStr(kv) == Repr(kv[1]) \o <<":", " ">> \o Repr(kv[2])

RECURSIVE JoinItems(_)
JoinItems(m) ==
    IF m = <<>> THEN <<>>
    ELSE IF Len(m) = 1 THEN ItemStr(m[1])
    ELSE ItemStr(m[1]) \o <<",", " ">> \o JoinItems(Tail(m))

Str(message) == <<"{">> \o JoinItems(message) \o <<"}">>

(***************************************************************************)
(* len(enc.encode(s)).  The tokenizer is an external library; it is        *)
(* modelled by the number of pieces its splitting pattern cuts s into      *)
(* (each piece taken as one token): a run of letters with at most one      *)
(* non-letter before it, a run of punctuation with at most one space       *)
(* before it, a run of spaces (without its last space when something       *)
(* other than a space follows).                                            *)
(***************************************************************************)
Letters ==
    {"a", "b", "c", "d", "e", "i", "l", "m", "n", "o", "r", "s", "t", "u", "y"}

Class(ch) == IF ch = " " THEN "S" ELSE IF ch \in Letters THEN "L" ELSE "P"

\* the last position of the run of class cls that starts at j (j-1: no run)
RunEnd(s, j, cls) ==
    CHOOSE k \in (j - 1)..Len(s) :
        /\ \A x \in j..k : Class(s[x]) = cls
        /\ (k = Len(s) \/ Class(s[k + 1]) # cls)

RECURSIVE Pieces(_, _)
Pieces(s, i) ==
    IF i > Len(s) THEN 0
    ELSE LET c == Class(s[i])
             nxt == IF i < Len(s) THEN Class(s[i + 1]) ELSE "E"
         IN  CASE c = "L" -> 1 + Pieces(s, RunEnd(s, i, "L") + 1)
               [] c # "L" /\ nxt = "L" -> 1 + Pieces(s, RunEnd(s, i + 1, "L") + 1)
               [] c = "P" /\ nxt # "L" -> 1 + Pieces(s, RunEnd(s, i, "P") + 1)
               [] c = "S" /\ nxt = "P" -> 1 + Pieces(s, RunEnd(s, i + 1, "P") + 1)
               [] OTHER ->
                    LET e == RunEnd(s, i, "S")
                    IN  IF e = Len(s) THEN 1 ELSE 1 + Pieces(s, e)

Encode(s) == Pieces(s, 1)

RECURSIVE SumTokens(_)
SumTokens(list) ==
    IF list = <<>> THEN 0
    ELSE Encode(Str(Head(list))) + SumTokens(Tail(list))

\* count_tokens(content): content is a str or a list (read through the heap)
count_tokens(h, content) ==
    IF content.t = "list" THEN SumTokens(h[content.v])
    ELSE Encode(content.v)

(***************************************************************************)
(* str.strip(): leading and trailing whitespace removed.                   *)
(***************************************************************************)
RECURSIVE lstrip(_)
lstrip(s) == IF s # <<>> /\ Head(s) = " " THEN lstrip(Tail(s)) ELSE s

RECURSIVE rstrip(_)
rstrip(s) ==
    IF s # <<>> /\ s[Len(s)] = " " THEN rstrip(SubSeq(s, 1, Len(s) - 1)) ELSE s

strip(s) == rstrip(lstrip(s))

(***************************************************************************)
(* The heap of list objects: address -> entries.  A list display           *)
(* [...] builds a new object at an address no live object has.             *)
(***************************************************************************)
Fresh(h) ==
    CHOOSE a \in 1..(Cardinality(DOMAIN h) + 1) :
        /\ a \notin DOMAIN h
        /\ \A b \in 1..(a - 1) : b \in DOMAIN h

Alloc(h, entries) ==
    LET a == Fresh(h) IN [heap |-> (a :> entries) @@ h, ref |-> a]

\* `if history:` -- None and the empty list are falsy
Truthy(h, x) == x.t = "list" /\ h[x.v] # <<>>

(***************************************************************************)
(* Request construction: RekaProvider._prepare_model_inputs.               *)
(***************************************************************************)
DefaultTemperature == 0
DefaultMaxTokens == 300

\* lines 48-56 with `if system_message:` in place of isinstance(..., str)
PrepareMessagesTruthySystem(h, prompt, history, system_message) ==
    LET user == <<UserMsg(prompt)>>
        withHistory == IF Truthy(h, history) THEN h[history.v] \o user ELSE user
        messages ==
            IF system_message.t = "str" /\ system_message.v # <<>>
            THEN <<SystemMsg(system_message.v)>> \o withHistory
            ELSE IF system_message.t = "list"
                 THEN h[system_message.v] \o withHistory
                 ELSE withHistory
    IN  Alloc(h, messages)

\* lines 48-56 with the history put in front of the system messages
PrepareMessagesHistoryFirst(h, prompt, history, system_message) ==
    LET user == <<UserMsg(prompt)>>
        withSystem ==
            IF system_message.t = "str"
            THEN <<SystemMsg(system_message.v)>> \o user
            ELSE IF system_message.t = "list"
                 THEN h[system_message.v] \o user
                 ELSE user
    IN  Alloc(h, IF Truthy(h, history) THEN h[history.v] \o withSystem
                 ELSE withSystem)

\* lines 48-56 with a system entry made whatever system_message is
PrepareMessagesAlwaysSystem(h, prompt, history, system_message) ==
    LET user == <<UserMsg(prompt)>>
        withHistory == IF Truthy(h, history) THEN h[history.v] \o user ELSE user
        messages ==
            IF system_message.t = "list"
            THEN h[system_message.v] \o withHistory
            ELSE <<SystemMsg(IF system_message.t = "str"
                             THEN system_message.v ELSE <<>>)>> \o withHistory
    IN  Alloc(h, messages)

\* lines 48-56 with the prompt appended to the caller's history list
\* (history.append(...); messages = history)
PrepareMessagesInPlace(h, prompt, history, system_message) ==
    LET user == <<UserMsg(prompt)>>
        h1 == IF Truthy(h, history)
              THEN [h EXCEPT ![history.v] = @ \o user] ELSE h
        withHistory == IF Truthy(h, history) THEN h1[history.v] ELSE user
        messages ==
            IF system_message.t = "str"
            THEN <<SystemMsg(system_message.v)>> \o withHistory
            ELSE IF system_message.t = "list"
                 THEN h1[system_message.v] \o withHistory
                 ELSE withHistory
    IN  Alloc(h1, messages)

\* lines 48-56: the message list; the result is the heap with the new list
\* in it and the list's address
PrepareMessages(h, prompt, history, system_message) ==
    LET user == <<UserMsg(prompt)>>
        withHistory == IF Truthy(h, history) THEN h[history.v] \o user ELSE user
        messages ==
            IF system_message.t = "str"
            THEN <<SystemMsg(system_message.v)>> \o withHistory
            ELSE IF system_message.t = "list"
                 THEN h[system_message.v] \o withHistory
                 ELSE withHistory
    IN  Alloc(h, messages)

\* The extra keyword arguments of a public method reach _prepare_model_inputs
\* as **kwargs: the key "stream" binds to its parameter of that name (line
\* 45), which the body never reads; every other key lands in its **kwargs.
InnerKwargs(extra) == [k \in DOMAIN extra \ {"stream"} |-> extra[k]]

\* lines 58-64: {"messages": ..., "temperature": ..., "max_tokens": ...,
\* **kwargs}; a later key wins
_prepare_model_inputs(h, prompt, history, system_message, temperature, max_tokens, extra) ==
    LET pm == PrepareMessages(h, prompt, history, system_message)
        named == [k \in {"messages", "temperature", "max_tokens"} |->
                    CASE k = "messages" -> ListV(pm.ref)
                      [] k = "temperature" -> NumV(temperature)
                      [] OTHER -> NumV(max_tokens)]
    IN  [heap |-> pm.heap,
         built |-> pm.ref,
         model_inputs |-> InnerKwargs(extra) @@ named]

\* self.model: this instance is constructed without a model (lines 24-26).
\* Model names are kept as whole strings.
SelfModel == "reka-core"

(***************************************************************************)
(* The state.                                                              *)
(***************************************************************************)
VARIABLES
    heap,          \* the list objects: address -> entries
    caller,        \* addresses of the caller's own lists
    caller0,       \* their entries when the caller made them
    owned,         \* per call: the lists it built
    latency,       \* self.latency
    pc,            \* per call: where it is
    kind,          \* per call: the public method invoked
    args,          \* per call: its arguments
    built,         \* per call: address of the list lines 48-56 built
    model_inputs,  \* per call: the dict _prepare_model_inputs returned
    attempts,      \* per call: executions of the vendor call expression
    sent,          \* per call: the keyword arguments the vendor received
    response,      \* per call: the text of the vendor's response
    error,         \* per call: the exception raised by the vendor call
    propagated,    \* per call: the exception the caller saw
    measured,      \* per call: the latency its own track_latency recorded
    tokens,        \* per call: prompt_tokens and completion_tokens
    result,        \* per call: the Result returned
    gen,           \* per call: the generator made by _process_stream
    chunks,        \* per call: contents of the chunks the vendor delivered
    pulls,         \* per call: next() calls made on the vendor stream
    delivered,     \* per call: the fragments the consumer obtained
    stops          \* per call: times the consumer was told the sequence is over

globals == <<heap, caller, caller0, owned, latency>>
request == <<kind, args, built, model_inputs>>
vendor == <<attempts, sent, response, error, propagated, measured>>
outcome == <<tokens, result>>
streaming == <<gen, chunks, pulls, delivered, stops>>
vars == <<globals, pc, request, vendor, outcome, streaming>>

\* the callers: two threads (or tasks) sharing the adapter instance
Calls == {1, 2}

Timed == {"complete", "acomplete"}
Streams == {"complete_stream", "acomplete_stream"}
Kinds == Timed \cup Streams

(***************************************************************************)
(* The inputs.                                                             *)
(***************************************************************************)
Prompts == {<<>>, <<"a", " ", "b">>}
SystemStrings == {<<>>, <<"b">>}
Texts == {<<"a">>, <<"a", " ">>, <<" ", "b">>}
ChunkTexts == {<<"a">>, <<" ", "b">>}
VendorErrors == {"RateLimitError"}

\* the i-th entry of a conversation the caller keeps as history
Turn(i) ==
    IF i % 2 = 1 THEN Msg(R_user, <<"a">>) ELSE Msg(R_assistant, <<"b">>)

HistoryLists == {[i \in 1..n |-> Turn(i)] : n \in 0..MaxHistory}
SystemLists == {<<>>, <<Msg(R_system, <<"a">>), Msg(R_user, <<"b">>)>>}
KwMessages == <<Msg(R_user, <<"b", " ", "b">>)>>

Empty == [k \in {} |-> NoneV]

\* the extra keyword arguments a caller passes
Extras ==
    {Empty,
     [k \in {"stream"} |-> BoolV(TRUE)],
     [k \in {"messages"} |-> ListV(caller.messages)],
     [k \in {"model"} |-> StrV("reka-flash")],
     [k \in {"top_p"} |-> NumV(1)]}

Sampling == {<<DefaultTemperature, DefaultMaxTokens>>, <<1, 5>>}

NoArgs ==
    [prompt |-> <<>>, history |-> NoneV, system_message |-> NoneV,
     temperature |-> 0, max_tokens |-> 0, extra |-> Empty]
NoTokens == [done |-> FALSE, prompt |-> 0, completion |-> 0]
NoResult ==
    [ok |-> FALSE, text |-> <<>>, model_inputs |-> Empty,
     tokens_prompt |-> 0, tokens_completion |-> 0, latency |-> NoneV]

\* the adapter after __init__ (lines 17-28), the caller holding a history
\* list hl, a system-message list sl and a list for a "messages" keyword
Setup(hl, sl) ==
    /\ heap = (1 :> hl) @@ (2 :> sl) @@ (3 :> KwMessages)
    /\ caller0 = [history |-> hl, system |-> sl, messages |-> KwMessages]
    /\ caller = [history |-> 1, system |-> 2, messages |-> 3]
    /\ owned = [c \in Calls |-> {}]
    /\ latency = NoneV
    /\ pc = [c \in Calls |-> "idle"]
    /\ kind = [c \in Calls |-> "none"]
    /\ args = [c \in Calls |-> NoArgs]
    /\ built = [c \in Calls |-> 0]
    /\ model_inputs = [c \in Calls |-> Empty]
    /\ attempts = [c \in Calls |-> 0]
    /\ sent = [c \in Calls |-> Empty]
    /\ response = [c \in Calls |-> NoneV]
    /\ error = [c \in Calls |-> "none"]
    /\ propagated = [c \in Calls |-> "none"]
    /\ measured = [c \in Calls |-> 0]
    /\ tokens = [c \in Calls |-> NoTokens]
    /\ result = [c \in Calls |-> NoResult]
    /\ gen = [c \in Calls |-> "none"]
    /\ chunks = [c \in Calls |-> <<>>]
    /\ pulls = [c \in Calls |-> 0]
    /\ delivered = [c \in Calls |-> <<>>]
    /\ stops = [c \in Calls |-> 0]

Init == \E hl \in HistoryLists, sl \in SystemLists : Setup(hl, sl)

InitConc == \E hl \in {h \in HistoryLists : Len(h) = MaxHistory} : Setup(hl, <<>>)

(***************************************************************************)
(* A public method is invoked: lines 75-82, 112-119, 149-156, 176-183.     *)
(***************************************************************************)
StartCall(c, k, prompt, history, system_message, temperature, max_tokens, extra) ==
    /\ pc[c] = "idle"
    /\ LET r == _prepare_model_inputs(heap, prompt, history, system_message,
                                   temperature, max_tokens, extra)
       IN  /\ heap' = r.heap
           /\ owned' = [owned EXCEPT ![c] = {r.built}]
           /\ built' = [built EXCEPT ![c] = r.built]
           /\ model_inputs' = [model_inputs EXCEPT ![c] = r.model_inputs]
    /\ kind' = [kind EXCEPT ![c] = k]
    /\ args' = [args EXCEPT ![c] =
                    [prompt |-> prompt, history |-> history,
                     system_message |-> system_message,
                     temperature |-> temperature, max_tokens |-> max_tokens,
                     extra |-> extra]]
    /\ pc' = [pc EXCEPT ![c] = "prepared"]
    /\ UNCHANGED <<caller, caller0, latency, vendor, outcome, streaming>>

\* any call a caller can write
Start(c) ==
    /\ pc[c] = "idle"
    /\ \E k \in Kinds, prompt \in Prompts, extra \in Extras, tm \in Sampling,
       history \in {NoneV, ListV(caller.history)},
       system_message \in {NoneV, ListV(caller.system)}
                              \cup {StrV(s) : s \in SystemStrings} :
            StartCall(c, k, prompt, history, system_message, tm[1], tm[2], extra)

\* complete("a") or acomplete("a")
StartPlain(c) ==
    /\ pc[c] = "idle"
    /\ \E k \in Timed :
            StartCall(c, k, <<"a">>, NoneV, NoneV,
                      DefaultTemperature, DefaultMaxTokens, Empty)

(***************************************************************************)
(* The vendor call expression, lines 85, 122, 158, 185:                    *)
(* chat.create(model=self.model, **model_inputs).  A "model" key in        *)
(* model_inputs makes the call itself raise TypeError (the keyword is      *)
(* given twice) before the vendor receives anything.                       *)
(***************************************************************************)
\* an exception of the vendor call answered by calling again
AfterVendorErrorRetry(k) == "prepared"

\* where an exception raised by the vendor call expression takes the call:
\* inside `with self.track_latency()` for the timed methods, straight to the
\* caller for the streaming ones
AfterVendorError(k) == IF k \in Timed THEN "raising" ELSE "failed"

CallVendor(c) ==
    /\ pc[c] = "prepared"
    /\ attempts' = [attempts EXCEPT ![c] = @ + 1]
    /\ IF "model" \in DOMAIN model_inputs[c]
       THEN /\ error' = [error EXCEPT ![c] = "TypeError"]
            /\ propagated' = [propagated EXCEPT ![c] =
                                IF kind[c] \in Timed THEN @ ELSE "TypeError"]
            /\ pc' = [pc EXCEPT ![c] = AfterVendorError(kind[c])]
            /\ UNCHANGED sent
       ELSE /\ sent' = [sent EXCEPT ![c] =
                            [k \in {"model"} |-> StrV(SelfModel)] @@ model_inputs[c]]
            /\ pc' = [pc EXCEPT ![c] = "awaiting"]
            /\ UNCHANGED <<error, propagated>>
    /\ UNCHANGED <<globals, request, response, measured, outcome, streaming>>

\* the vendor answers a chat.create call
VendorReturn(c) ==
    /\ pc[c] = "awaiting"
    /\ kind[c] \in Timed
    /\ \E text \in Texts : response' = [response EXCEPT ![c] = StrV(text)]
    /\ pc' = [pc EXCEPT ![c] = "returned"]
    /\ UNCHANGED <<globals, request, attempts, sent, error, propagated, measured,
                   outcome, streaming>>

\* the vendor call raises
VendorRaise(c) ==
    /\ pc[c] = "awaiting"
    /\ \E e \in VendorErrors :
        /\ error' = [error EXCEPT ![c] = e]
        /\ propagated' = [propagated EXCEPT ![c] =
                            IF kind[c] \in Timed THEN @ ELSE e]
    /\ pc' = [pc EXCEPT ![c] = AfterVendorError(kind[c])]
    /\ UNCHANGED <<globals, request, attempts, sent, response, measured,
                   outcome, streaming>>

(***************************************************************************)
(* The end of `with self.track_latency():` (BaseProvider, not among the    *)
(* sources): a scoped timer that records the elapsed time of the block in  *)
(* self.latency and lets an exception through untouched.  Whether a        *)
(* failed block records its time is not stated, so both happen.            *)
(***************************************************************************)
ExitTimer(c) ==
    /\ \/ /\ pc[c] = "returned"
          /\ \E l \in 1..MaxLatency :
                /\ latency' = NumV(l)
                /\ measured' = [measured EXCEPT ![c] = l]
          /\ pc' = [pc EXCEPT ![c] = "timed"]
          /\ UNCHANGED propagated
       \/ /\ pc[c] = "raising"
          /\ \/ UNCHANGED <<latency, measured>>
             \/ \E l \in 1..MaxLatency :
                    /\ latency' = NumV(l)
                    /\ measured' = [measured EXCEPT ![c] = l]
          /\ propagated' = [propagated EXCEPT ![c] = error[c]]
          /\ pc' = [pc EXCEPT ![c] = "failed"]
    /\ UNCHANGED <<heap, caller, caller0, owned, request, attempts, sent,
                   response, error, outcome, streaming>>

(***************************************************************************)
(* Lines 87-89 / 124-126: strip the text, count the tokens.                *)
(***************************************************************************)
\* line 87: response.responses[0].message.content.strip()
Completion(c) == strip(response[c].v)

\* line 88: self.count_tokens(model_inputs["messages"])
PromptTokens(c) == count_tokens(heap, model_inputs[c]["messages"])

\* the count taken on the text as the vendor returned it
CompletionTokensRaw(c) == count_tokens(heap, response[c])

\* line 89: self.count_tokens(completion)
CompletionTokens(c) == count_tokens(heap, StrV(Completion(c)))

CountTokens(c) ==
    /\ pc[c] = "timed"
    /\ tokens' = [tokens EXCEPT ![c] =
                    [done |-> TRUE, prompt |-> PromptTokens(c),
                     completion |-> CompletionTokens(c)]]
    /\ pc' = [pc EXCEPT ![c] = "counted"]
    /\ UNCHANGED <<globals, request, vendor, result, streaming>>

(***************************************************************************)
(* Lines 91-101 / 128-138: meta and the Result.                            *)
(***************************************************************************)
\* the latency of the call's own timer, kept in a local
MetaLatencyOwn(c) == NumV(measured[c])

\* line 94: "latency": self.latency
MetaLatency(c) == latency

BuildResult(c) ==
    /\ pc[c] = "counted"
    /\ result' = [result EXCEPT ![c] =
                    [ok |-> TRUE, text |-> Completion(c),
                     model_inputs |-> model_inputs[c],
                     tokens_prompt |-> tokens[c].prompt,
                     tokens_completion |-> tokens[c].completion,
                     latency |-> MetaLatency(c)]]
    /\ pc' = [pc EXCEPT ![c] = "done"]
    /\ UNCHANGED <<globals, request, vendor, tokens, streaming>>

(***************************************************************************)
(* Streaming.  Lines 158-161 / 185-189: the vendor hands back its stream,  *)
(* _process_stream(response) makes a generator (its body has not run) and  *)
(* the StreamResult is returned.                                           *)
(***************************************************************************)
\* a body that reads a first chunk ahead of the consumer
PulledAtCreationEager(c) == <<"a">>

\* the chunks the body of _process_stream pulls when the generator is made
PulledAtCreation(c) == <<>>

OpenStream(c) ==
    /\ pc[c] = "awaiting"
    /\ kind[c] \in Streams
    /\ gen' = [gen EXCEPT ![c] = "created"]
    /\ chunks' = [chunks EXCEPT ![c] = PulledAtCreation(c)]
    /\ pulls' = [pulls EXCEPT ![c] = Len(PulledAtCreation(c))]
    /\ pc' = [pc EXCEPT ![c] = "streaming"]
    /\ UNCHANGED <<globals, request, vendor, outcome, delivered, stops>>

\* an iterable that starts over when iterated again
GenAfterEndRestart(g) == "created"

\* the generator once `for chunk in response` is told the stream is over:
\* its body returns, and a generator that returned stays finished
GenAfterEnd(g) == "finished"

(***************************************************************************)
(* The consumer asks for the next fragment (next() / anext() on the        *)
(* generator), lines 163-165 / 191-193.  A live generator resumes and      *)
(* pulls the vendor stream once: a chunk is yielded as a fragment, the     *)
(* end of the stream finishes the generator.  A finished generator         *)
(* answers StopIteration without running.                                  *)
(***************************************************************************)
_process_stream(c) ==
    /\ pc[c] = "streaming"
    /\ IF gen[c] = "finished"
       THEN /\ stops[c] < MaxPasses
            /\ stops' = [stops EXCEPT ![c] = @ + 1]
            /\ UNCHANGED <<gen, chunks, pulls, delivered>>
       ELSE /\ pulls' = [pulls EXCEPT ![c] = @ + 1]
            /\ \/ \E text \in ChunkTexts :
                    /\ Len(chunks[c]) < MaxChunks
                    /\ chunks' = [chunks EXCEPT ![c] = Append(@, text)]
                    /\ delivered' = [delivered EXCEPT ![c] = Append(@, text)]
                    /\ gen' = [gen EXCEPT ![c] = "suspended"]
                    /\ UNCHANGED stops
               \/ /\ gen' = [gen EXCEPT ![c] = GenAfterEnd(gen[c])]
                  /\ stops' = [stops EXCEPT ![c] = 1]
                  /\ UNCHANGED <<chunks, delivered>>
    /\ UNCHANGED <<globals, pc, request, vendor, outcome>>

(***************************************************************************)
(* The caller is done with what a call gave it (the Result, the            *)
(* exception, the stream, consumed or not): the objects only that call     *)
(* referred to are collected and the caller may call again.                *)
(***************************************************************************)
Release(c) ==
    /\ pc[c] \in {"done", "failed", "streaming"}
    /\ heap' = [a \in DOMAIN heap \ owned[c] |-> heap[a]]
    /\ owned' = [owned EXCEPT ![c] = {}]
    /\ pc' = [pc EXCEPT ![c] = "idle"]
    /\ kind' = [kind EXCEPT ![c] = "none"]
    /\ args' = [args EXCEPT ![c] = NoArgs]
    /\ built' = [built EXCEPT ![c] = 0]
    /\ model_inputs' = [model_inputs EXCEPT ![c] = Empty]
    /\ attempts' = [attempts EXCEPT ![c] = 0]
    /\ sent' = [sent EXCEPT ![c] = Empty]
    /\ response' = [response EXCEPT ![c] = NoneV]
    /\ error' = [error EXCEPT ![c] = "none"]
    /\ propagated' = [propagated EXCEPT ![c] = "none"]
    /\ measured' = [measured EXCEPT ![c] = 0]
    /\ tokens' = [tokens EXCEPT ![c] = NoTokens]
    /\ result' = [result EXCEPT ![c] = NoResult]
    /\ gen' = [gen EXCEPT ![c] = "none"]
    /\ chunks' = [chunks EXCEPT ![c] = <<>>]
    /\ pulls' = [pulls EXCEPT ![c] = 0]
    /\ delivered' = [delivered EXCEPT ![c] = <<>>]
    /\ stops' = [stops EXCEPT ![c] = 0]
    /\ UNCHANGED <<caller, caller0, latency>>

(***************************************************************************)
(* Spec: one caller invoking the four methods one call after the other,    *)
(* with every argument shape.  SpecConc: both callers invoking              *)
(* complete / acomplete on the same instance at once.                      *)
(***************************************************************************)
Caller == {1}

Next ==
    \E c \in Caller :
        \/ Start(c)
        \/ CallVendor(c)
        \/ VendorReturn(c)
        \/ VendorRaise(c)
        \/ ExitTimer(c)
        \/ CountTokens(c)
        \/ BuildResult(c)
        \/ OpenStream(c)
        \/ _process_stream(c)
        \/ Release(c)

Spec == Init /\ [][Next]_vars

NextConc ==
    \E c \in Calls :
        \/ StartPlain(c)
        \/ CallVendor(c)
        \/ VendorReturn(c)
        \/ VendorRaise(c)
        \/ ExitTimer(c)
        \/ CountTokens(c)
        \/ BuildResult(c)
        \/ Release(c)

SpecConc == InitConc /\ [][NextConc]_vars

(***************************************************************************)
(* Properties.                                                             *)
(***************************************************************************)
Active(c) == pc[c] # "idle"

\* the entries of the history the call was given (none for None)
HistoryEntries(c) ==
    IF args[c].history.t = "list" THEN heap[args[c].history.v] ELSE <<>>

\* the value of key in a message dict
Field(m, key) == m[CHOOSE i \in 1..Len(m) : m[i][1] = key][2]

CallerLists == {caller.history, caller.system, caller.messages}

\* C1: with a string system_message (the empty string too) the list built is
\* {"role": "system", "content": system_message}, then the history entries
\* in their order, then {"content": prompt, "role": "user"}, and nothing else.
C1_StringSystemMessage ==
    \A c \in Calls :
        (Active(c) /\ args[c].system_message.t = "str") =>
            heap[built[c]] =
                << << <<K_role, R_system>>,
                      <<K_content, args[c].system_message.v>> >> >>
                \o HistoryEntries(c)
                \o << << <<K_content, args[c].prompt>>, <<K_role, R_user>> >> >>

C1_Witness ==
    \E c \in Calls :
        /\ Active(c)
        /\ args[c].system_message = StrV(<<>>)
        /\ Len(HistoryEntries(c)) = 2
        /\ Len(heap[built[c]]) = 4

\* C2: with a list system_message (the empty list too) the list built is
\* [*system_message, *history, user_prompt].
C2_ListSystemMessage ==
    \A c \in Calls :
        (Active(c) /\ args[c].system_message.t = "list") =>
            heap[built[c]] =
                heap[args[c].system_message.v]
                \o HistoryEntries(c)
                \o << << <<K_content, args[c].prompt>>, <<K_role, R_user>> >> >>

C2_Witness ==
    \E c \in Calls :
        /\ Active(c)
        /\ args[c].system_message.t = "list"
        /\ Len(heap[args[c].system_message.v]) = 2
        /\ Len(HistoryEntries(c)) = 2
        /\ Len(heap[built[c]]) = 5

C4_ExtraKwargsMergedVerbatim ==
    \A c \in Calls :
        attempts[c] > 0 =>
            /\ \A k \in DOMAIN args[c].extra :
                k \in DOMAIN sent[c] /\ sent[c][k] = args[c].extra[k]
            /\ "messages" \in DOMAIN sent[c]
            /\ sent[c]["messages"] = ListV(built[c])
            /\ sent[c]["temperature"] = NumV(args[c].temperature)
            /\ sent[c]["max_tokens"] = NumV(args[c].max_tokens)

\* C5: complete / acomplete run the vendor call expression at most once; a
\* Result exists only after that one call returned; a failed call hands the
\* caller the very exception raised, with no token count and no Result.
C5_OneCallNoRetry ==
    \A c \in Calls :
        kind[c] \in Timed =>
            /\ attempts[c] <= 1
            /\ tokens[c].done => (attempts[c] = 1 /\ response[c] # NoneV)
            /\ result[c].ok =>
                (attempts[c] = 1 /\ response[c] # NoneV /\ error[c] = "none")
            /\ propagated[c] # "none" =>
                /\ pc[c] = "failed"
                /\ propagated[c] = error[c]
            /\ pc[c] = "failed" =>
                /\ attempts[c] = 1
                /\ propagated[c] = error[c]
                /\ error[c] # "none"
                /\ ~tokens[c].done
                /\ ~result[c].ok

C5_Witness ==
    \E c \in Calls :
        /\ kind[c] = "acomplete"
        /\ pc[c] = "failed"
        /\ propagated[c] = "RateLimitError"
        /\ attempts[c] = 1

\* C6: when the vendor stream has ended the generator is finished and the
\* consumer has every chunk; from then on, asking again yields no fragment
\* and pulls nothing from the vendor.
C6_FiniteNotRestartable ==
    /\ [](\A c \in Calls :
            stops[c] > 0 => (gen[c] = "finished" /\ delivered[c] = chunks[c]))
    /\ [][\A c \in Calls :
            (stops[c] > 0 /\ stops'[c] > 0) =>
                /\ delivered'[c] = delivered[c]
                /\ chunks'[c] = chunks[c]
                /\ pulls'[c] = pulls[c]
                /\ gen'[c] = "finished"]_vars

C6_Witness ==
    \E c \in Calls :
        /\ kind[c] = "complete_stream"
        /\ stops[c] = 2
        /\ Len(delivered[c]) = 2

\* C7: a streaming method returns with no chunk pulled and no token count;
\* the fragments obtained are the vendor's chunks in order, one per chunk,
\* as many as chunks were pulled, and each request pulls the stream once.
C7_LazyOneToOne ==
    \A c \in Calls :
        kind[c] \in Streams =>
            /\ ~tokens[c].done
            /\ ~result[c].ok
            /\ gen[c] \in {"none", "created"} =>
                (pulls[c] = 0 /\ chunks[c] = <<>> /\ delivered[c] = <<>>)
            /\ delivered[c] = chunks[c]
            /\ pulls[c] = Len(delivered[c]) + (IF stops[c] > 0 THEN 1 ELSE 0)

C7_Witness ==
    \E c \in Calls :
        /\ kind[c] = "acomplete_stream"
        /\ gen[c] = "suspended"
        /\ delivered[c] = <<<<"a">>, <<" ", "b">>>>

\* what a call keeps to itself
Locals(c) ==
    <<pc[c], kind[c], args[c], built[c], model_inputs[c], attempts[c], sent[c],
      response[c], error[c], propagated[c], measured[c], tokens[c], result[c]>>

\* C8: a step of one call leaves the other call's locals and lists alone
\* (self.latency is all they share), and the latency a Result reports is
\* the value self.latency holds when meta is built, whichever call
\* recorded it.
C8_MetaReadsSharedLatency ==
    /\ [][\A c \in Calls :
            pc'[c] # pc[c] =>
                \A d \in Calls \ {c} :
                    /\ Locals(d)' = Locals(d)
                    /\ owned'[d] = owned[d]
                    /\ \A a \in owned[d] : heap'[a] = heap[a]]_vars
    /\ [][\A c \in Calls :
            (pc[c] = "counted" /\ pc'[c] = "done") =>
                result'[c].latency = latency]_vars

\* the race: two complete calls, the first has its Result, and that Result
\* reports the latency the second recorded, not the first's own
C8_Witness ==
    /\ kind[1] = "complete"
    /\ kind[2] = "complete"
    /\ result[1].ok
    /\ measured[2] # 0
    /\ measured[1] # measured[2]
    /\ result[1].latency = NumV(measured[2])

\* t is s without its leading and trailing spaces
IsStripped(t, s) ==
    /\ t = <<>> \/ (t[1] # " " /\ t[Len(t)] # " ")
    /\ \E i \in 0..Len(s) :
        /\ i + Len(t) <= Len(s)
        /\ SubSeq(s, i + 1, i + Len(t)) = t
        /\ \A j \in (1..i) \cup ((i + Len(t) + 1)..Len(s)) : s[j] = " "

\* C9 as stated: tokens_prompt counts the message list the vendor received
\* (the one in the Result's model_inputs), tokens_completion counts exactly
\* the text the vendor returned, which is the Result's text.
C9_TokensOnReturnedText ==
    \A c \in Calls :
        result[c].ok =>
            /\ result[c].model_inputs["messages"] = sent[c]["messages"]
            /\ result[c].tokens_prompt = count_tokens(heap, sent[c]["messages"])
            /\ result[c].text = response[c].v
            /\ result[c].tokens_completion = Encode(response[c].v)

\* C9 amended: tokens_prompt counts the message list the vendor received
\* (the one in the Result's model_inputs); the Result's text is the text the
\* vendor returned without its leading and trailing whitespace, and
\* tokens_completion counts that stripped text.
C9_TokensOnStrippedText ==
    \A c \in Calls :
        result[c].ok =>
            /\ result[c].model_inputs["messages"] = sent[c]["messages"]
            /\ result[c].tokens_prompt = count_tokens(heap, sent[c]["messages"])
            /\ IsStripped(result[c].text, response[c].v)
            /\ result[c].tokens_completion = Encode(result[c].text)

C9_Witness ==
    \E c \in Calls :
        /\ result[c].ok
        /\ response[c] = StrV(<<"a", " ">>)
        /\ result[c].text = <<"a">>
        /\ result[c].tokens_completion = 1
        /\ "messages" \in DOMAIN args[c].extra

\* C10: the caller's lists keep their entries whatever calls are made, and
\* the list a call builds is never one of them.
C10_ArgumentsUntouched ==
    /\ heap[caller.history] = caller0.history
    /\ heap[caller.system] = caller0.system
    /\ heap[caller.messages] = caller0.messages
    /\ \A c \in Calls : Active(c) => built[c] \notin CallerLists

\* a later call that reuses the history list, after an earlier call finished
C10_Witness ==
    \E c \in Calls :
        /\ pc[c] = "prepared"
        /\ latency # NoneV
        /\ args[c].history = ListV(caller.history)
        /\ args[c].system_message = ListV(caller.system)
        /\ Len(heap[caller.history]) = 2
        /\ Len(heap[built[c]]) > Len(heap[caller.history])

====
